---- MODULE Spec2Model ----
(***************************************************************************)
(* Margdarshak-AI front end: the page components Login, Dashboard,         *)
(* MapView, EmergencyCorridor and AirQuality under one client-side router, *)
(* the shared axios client, and the pure helpers of EmergencyCorridor.     *)
(*                                                                         *)
(* One page is mounted at a time (src/App.jsx Routes).  The variables hold *)
(* the browser storage, the mounted page's React state, the operations it  *)
(* has in flight and its pending window timers.  Leaving a page discards   *)
(* its state together with the continuations of its in-flight operations;  *)
(* MapView's fetchIndia, which the code itself carries on after the page   *)
(* has gone, is followed to its end.                                       *)
(*                                                                         *)
(* A nullable value is a sequence of length at most one: None is null /    *)
(* undefined / absent, Some(x) is the value x.  A JavaScript object used   *)
(* as a map (predictions, severity) is a set of <<key, value>> pairs.      *)
(* A numeric string is the sequence of its decimal digits.                 *)
(***************************************************************************)
EXTENDS Integers, Sequences, FiniteSets, Bags, TLC

None == <<>>
Some(x) == <<x>>
Val(o) == o[1]

\* a ?? b
Coalesce(a, b) == IF a # None THEN a ELSE b

\* ----- bounds of the model -----
MaxLoginPending == 2
MaxTimers == 2
MaxPolys == 2
MaxSegments == 11

\* ----- values the environment can supply -----
Tokens == {"", "tokA", "tokB"}
\* values typed into the City / Segments / Time steps controls
CityInputs == {"Pune"}
SegInputs == {2}
StepInputs == {3}
\* the richer inputs of the preferences specification
CityInputsPrefs == {"", "Pune"}
SegInputsPrefs == {0, 12}
StepInputsPrefs == {25}

\* ----- program constants -----
\* showToast's default ms = 4200 and the 50 ms of the geocode handlers' setTimeout,
\* in ticks of the model's clock
ToastMs == 2
GeoDelay == 1
API_KEY == "1a6x1hi1wlUUYkBcUEDuQ5xjdRrqKda6mJXF8Ayf2oc"
DefaultCity == "Kolkata"
DefaultSegments == 5
DefaultTimeSteps == 10

VARIABLES
  path,           \* the mounted route (src/App.jsx Routes)
  storage,        \* localStorage: key -> None | Some(string)
  sent,           \* the network requests sent by the last step, with their headers
  alert,          \* the alert() raised by the operation that ended last
  done,           \* the operation that ended last on this page, and which of its requests failed
  ops,            \* the operations of the mounted page that await a response
  lastLogin,      \* access token returned by the most recent successful login
  error,          \* inline error text (Login err, Dashboard error, AirQuality error)
  loading,        \* loading flag of the mounted page
  city, segmentsNum, timeSteps, viewMode,     \* Dashboard / MapView controls
  data, predictions, co2Value,                \* Dashboard results (co2Value also MapView)
  roads, severity,                            \* MapView results
  originAddress, destinationAddress, origin, destination,   \* EmergencyCorridor inputs
  requestId, status, alternatives, route, ambulancePos,     \* EmergencyCorridor results
  toast,          \* EmergencyCorridor: the toast displayed
  timers,         \* pending window.setTimeout callbacks with the ticks left until they are due
  toastCall,      \* the most recent showToast call and the ticks elapsed since it
  query, location, aqData,                    \* AirQuality
  saved,          \* the controls' values at the most recent save of the preferences
  india,          \* MapView: the fetchIndia runs that await a response, cancelled ones included
  indiaFeature, borderGeo, maskGeo,           \* MapView: the India polygon, border and mask
  call, result    \* a helper function applied to an argument, and what it returned

commonVars == <<path, storage, saved, sent, alert, done, ops, lastLogin, error, loading>>
idleVars == <<path, storage, saved, alert, done, ops, lastLogin, error, loading>>
dashVars == <<city, segmentsNum, timeSteps, viewMode, data, predictions, co2Value, roads, severity>>
ecVars == <<originAddress, destinationAddress, origin, destination,
            requestId, status, alternatives, route, ambulancePos, toast, timers, toastCall>>
aqVars == <<query, location, aqData>>
helperVars == <<call, result>>
indiaVars == <<india, indiaFeature, borderGeo, maskGeo>>
vars == <<commonVars, dashVars, ecVars, aqVars, helperVars, indiaVars>>

\* JavaScript truthiness of a nullable string
Truthy(o) == o # None /\ Val(o) # ""

\* ---------------------------------------------------------------------
\* String(n) and Number(s) on non-negative integers
\* ---------------------------------------------------------------------
RECURSIVE String(_)
\* String(n) that keeps only the last digit
String_LastDigit(n) == <<n % 10>>

String(n) == IF n < 10 THEN <<n>> ELSE Append(String(n \div 10), n % 10)

RECURSIVE Number(_)
Number(s) == IF s = <<>> THEN 0
             ELSE 10 * Number(SubSeq(s, 1, Len(s) - 1)) + s[Len(s)]

NumberIsNaN(s) == \E i \in 1..Len(s) : s[i] \notin 0..9

\* ---------------------------------------------------------------------
\* localStorage
\* ---------------------------------------------------------------------
setItem(st, k, v) == [st EXCEPT ![k] = Some(v)]
getItem(st, k) == st[k]

EmptyStorage ==
  [k \in {"md_jwt", "trafficCity", "trafficSegments", "trafficTimeSteps"} |-> None]

\* ---------------------------------------------------------------------
\* shared axios client (api module, src/Login.jsx 411-473)
\* ---------------------------------------------------------------------

\* an interceptor that sets Authorization for any stored token, the empty one included
Interceptor_AnyToken(st) ==
  LET token == getItem(st, "md_jwt")
  IN [xApiKey |-> Some(API_KEY),
      authorization |-> IF token # None THEN Some(<<"Bearer ", Val(token)>>) ELSE None]

\* the request interceptor: x-api-key always, Authorization when md_jwt is truthy
Interceptor(st) ==
  LET token == getItem(st, "md_jwt")
  IN [xApiKey |-> Some(API_KEY),
      authorization |-> IF Truthy(token) THEN Some(<<"Bearer ", Val(token)>>) ELSE None]

\* a request sent through the shared client to endpoint ep
ApiRequest(ep, st, login) ==
  [client |-> "API", ep |-> ep, headers |-> Interceptor(st),
   storedAtSend |-> getItem(st, "md_jwt"), loginAtSend |-> login]

\* a request sent with fetch(); only EmergencyCorridor's call / callGet set x-api-key
FetchRequest(ep, withKey) ==
  [client |-> "fetch", ep |-> ep,
   headers |-> [xApiKey |-> IF withKey THEN Some(API_KEY) ELSE None,
                authorization |-> None]]

\* the request an operation sends for item number k of a list it walks
ForItem(req, k) == [x \in DOMAIN req \cup {"item"} |-> IF x = "item" THEN k ELSE req[x]]

\* what tells one request of an operation from another: its endpoint, and the
\* list item it is for (0 when it is for none)
KeyOf(req) == [ep |-> req.ep, item |-> IF "item" \in DOMAIN req THEN req.item ELSE 0]

\* the requests an invocation has sent so far, each counted as often as it was sent
Asking(reqs) == SetToBag({KeyOf(r) : r \in reqs})
Ask(o, reqs) == [o EXCEPT !.asked = @ (+) Asking(reqs)]
WithAsked(rec, reqs) == [x \in DOMAIN rec \cup {"asked"} |-> IF x = "asked" THEN Asking(reqs) ELSE rec[x]]

\* ---------------------------------------------------------------------
\* roads and traffic values returned by the back end
\* ---------------------------------------------------------------------
rA == [id |-> "A", name |-> "MG Road", ncoords |-> 2]
rB == [id |-> "B", name |-> "Park Street", ncoords |-> 3]
rC == [id |-> "C", name |-> "unnamed_7", ncoords |-> 4]
rD == [id |-> "D", name |-> "Ring Road", ncoords |-> 0]

\* r.data.roads of the responses of /api/roads (None: the field is missing)
RoadsResponses == {None, Some(<<rC, rA, rD, rB>>), Some(<<rA>>)}

\* t.data of the responses of /api/live_traffic: severity, or jamFactor in tenths
TrafficResponses == {[severity |-> Some(40), jam10 |-> None],
                     [severity |-> None, jam10 |-> Some(7)],
                     [severity |-> None, jam10 |-> None]}

\* components.co of the air_pollution response (None: no value)
CoValues == {None, Some(280)}

\* /^unnamed/i.test(name) on the names above
StartsWithUnnamed(name) == name \in {"unnamed_7"}

\* Array.prototype.sort with byLengthDesc: a stable sort, longest first
RECURSIVE InsertDesc(_, _)
InsertDesc(sorted, r) ==
  IF sorted = <<>> THEN <<r>>
  ELSE IF Head(sorted).ncoords >= r.ncoords
       THEN <<Head(sorted)>> \o InsertDesc(Tail(sorted), r)
       ELSE <<r>> \o sorted

RECURSIVE SortByLengthDesc(_)
SortByLengthDesc(s) ==
  IF s = <<>> THEN <<>>
  ELSE InsertDesc(SortByLengthDesc(SubSeq(s, 1, Len(s) - 1)), s[Len(s)])

\* normalizeRoads(roads, limit)
normalizeRoads(rs, limit) ==
  LET IsValid(r) == r.ncoords > 0
      IsNamed(r) == ~ (r.name = "" \/ StartsWithUnnamed(r.name))
      IsUnnamed(r) == ~ IsNamed(r)
      valid == SelectSeq(rs, IsValid)
      named == SortByLengthDesc(SelectSeq(valid, IsNamed))
      unnamed == SortByLengthDesc(SelectSeq(valid, IsUnnamed))
      all == named \o unnamed
  IN SubSeq(all, 1, IF limit < Len(all) THEN limit ELSE Len(all))

\* computeSeverity(trafficResp) and the numeric coercion of load (Dashboard),
\* the same expression inline in loadMapData (MapView)
computeSeverity(d) ==
  IF d.severity # None THEN Val(d.severity)
  ELSE Val(Coalesce(d.jam10, Some(0))) * 10

\* obj[k] = v on a map held as a set of pairs
Put(m, k, v) == {e \in m : e[1] # k} \cup {<<k, v>>}

\* ---------------------------------------------------------------------
\* Dashboard and MapView: initial state of the controls
\* ---------------------------------------------------------------------

\* useState(() => localStorage.getItem("trafficCity") || "Kolkata")
InitialCity(st) ==
  LET v == getItem(st, "trafficCity")
  IN IF Truthy(v) THEN Val(v) ELSE DefaultCity

\* useState(() => { v = getItem(k); if (v != null && !Number.isNaN(Number(v))) return Number(v); return dflt })
InitialNumber(st, k, dflt) ==
  LET v == getItem(st, k)
  IN IF v # None /\ ~ NumberIsNaN(Val(v)) THEN Number(Val(v)) ELSE dflt

\* the three localStorage.setItem calls of load (Dashboard) and handleSearch (MapView)
savePrefs(st, c, s, t) ==
  setItem(setItem(setItem(st, "trafficCity", c),
                  "trafficSegments", String(s)),
          "trafficTimeSteps", String(t))

\* ---------------------------------------------------------------------
\* the load in flight (Dashboard load, MapView loadMapData)
\* ---------------------------------------------------------------------
\* the two requests of Promise.all([getRoads(..), fetchCO2ForCity(..)])
LoadRequests(st, login) ==
  {ApiRequest("/api/roads", st, login), FetchRequest("openweathermap/geo", FALSE)}

NewLoad(name, lim) ==
  [op |-> name, phase |-> "roads", roadsResp |-> None, coPhase |-> "geo", co |-> None,
   list |-> <<>>, waiting |-> {}, rows |-> <<>>, preds |-> {}, failed |-> {}, zeroed |-> {},
   limit |-> lim, asked |-> Asking(LoadRequests(EmptyStorage, None))]

\* one getLiveTraffic(r.id) per road of the list
TrafficRequests(list, st, login) ==
  {ForItem(ApiRequest("/api/live_traffic", st, login), k) : k \in 1..Len(list)}

\* fetchCO2ForCity: geocode the city, then read the air pollution; every failure yields null
CoEvents(l) ==
  IF l.coPhase = "geo" THEN {"found", "empty", "fail"}
  ELSE IF l.coPhase = "air" THEN {"ok", "fail"}
  ELSE {}

fetchCO2ForCity(l, ev, co) ==
  IF l.coPhase = "geo" /\ ev = "found" THEN [l EXCEPT !.coPhase = "air"]
  ELSE IF ev = "ok"
  THEN [l EXCEPT !.coPhase = "done",
                 !.co = IF co = None THEN None
                        ELSE Some([co |-> Val(co), co2FromCo |-> (Val(co) * 44) \div 28])]
  ELSE IF ev = "empty" THEN [l EXCEPT !.coPhase = "done", !.co = None]
  ELSE [l EXCEPT !.coPhase = "done", !.co = None, !.failed = @ \cup {"co"}]

CoRequests(l2) ==
  IF l2.coPhase = "air" THEN {FetchRequest("openweathermap/air_pollution", FALSE)} ELSE {}

\* both promises of the first Promise.all have resolved
JoinReady(l) == l.roadsResp # None /\ l.coPhase = "done"

\* ---------------------------------------------------------------------
\* Dashboard
\* ---------------------------------------------------------------------
dashFrame == <<helperVars, indiaVars, path, storage, saved, alert, lastLogin, city, segmentsNum, timeSteps, viewMode, roads, severity>>

\* load(): everything up to the first await
loadStart(st, c, s, t, login) ==
  /\ loading' = TRUE
  /\ error' = ""
  /\ data' = <<>>
  /\ predictions' = {}
  /\ co2Value' = None
  /\ storage' = savePrefs(st, c, s, t)
  /\ saved' = Some([city |-> c, segmentsNum |-> s, timeSteps |-> t])
  /\ ops' = {NewLoad("load", s)}
  /\ sent' = LoadRequests(st, login)

\* load(): setData(rows); setPredictions(preds); setCo2Value(co2); finally
loadFinish(l) ==
  /\ data' = l.rows
  /\ predictions' = l.preds
  /\ co2Value' = l.co
  /\ loading' = FALSE
  /\ ops' = {}
  /\ done' = Some([op |-> "load", failed |-> l.failed, list |-> l.list, zeroed |-> l.zeroed])
  /\ sent' = {}
  /\ UNCHANGED error

\* load(): catch (e) of the outer try; finally
loadCatch(l, f) ==
  /\ error' = "Failed to fetch road data or live traffic."
  /\ loading' = FALSE
  /\ ops' = {}
  /\ done' = Some([op |-> "load", failed |-> l.failed \cup {f}])
  /\ sent' = {}
  /\ UNCHANGED <<data, predictions, co2Value>>

\* load(): after the first await, normalizeRoads and one getLiveTraffic per road
loadAfter(l2, reqs) ==
  IF ~ JoinReady(l2)
  THEN /\ ops' = {Ask(l2, reqs)}
       /\ sent' = reqs
       /\ UNCHANGED <<loading, error, data, predictions, co2Value, done>>
  ELSE LET list == normalizeRoads(Val(Coalesce(Val(l2.roadsResp), Some(<<>>))), l2.limit)
       IN IF list = <<>>
          THEN loadFinish(l2)
          ELSE /\ ops' = {Ask([l2 EXCEPT !.phase = "traffic", !.list = list,
                                         !.waiting = 1..Len(list)],
                                TrafficRequests(list, storage, lastLogin))}
               /\ sent' = TrafficRequests(list, storage, lastLogin)
               /\ UNCHANGED <<loading, error, data, predictions, co2Value, done>>

\* getRoads resolved with r.data.roads = resp
DashRoadsOk(resp) ==
  /\ path = "/dashboard"
  /\ \E l \in ops :
       /\ l.op = "load" /\ l.phase = "roads" /\ l.roadsResp = None
       /\ loadAfter([l EXCEPT !.roadsResp = Some(resp)], {})
  /\ UNCHANGED <<dashFrame, ecVars, aqVars>>

\* getRoads rejected: Promise.all rejects at once
DashRoadsFail ==
  /\ path = "/dashboard"
  /\ \E l \in ops :
       /\ l.op = "load" /\ l.phase = "roads" /\ l.roadsResp = None
       /\ loadCatch(l, "roads")
  /\ UNCHANGED <<dashFrame, ecVars, aqVars>>

\* a step of fetchCO2ForCity inside load
DashCo(ev, co) ==
  /\ path = "/dashboard"
  /\ \E l \in ops :
       /\ l.op = "load" /\ l.phase = "roads" /\ ev \in CoEvents(l)
       /\ LET l2 == fetchCO2ForCity(l, ev, co) IN loadAfter(l2, CoRequests(l2))
  /\ UNCHANGED <<dashFrame, ecVars, aqVars>>

\* a per-road handler whose catch block pushes no row and no prediction
loadRoad_Skip(l, i, value, ok) ==
  LET id == l.list[i].id
      l2 == [l EXCEPT !.waiting = @ \ {i},
                      !.preds = IF ok THEN Put(@, id, value) ELSE @,
                      !.rows = IF ok THEN Append(@, [segment |-> id, time |-> "Now",
                                                     vehicle_count |-> value])
                               ELSE @,
                      !.failed = IF ok THEN @ ELSE @ \cup {"traffic"},
                      !.zeroed = IF ok THEN @ ELSE @ \cup {id}]
  IN IF l2.waiting = {}
     THEN loadFinish(l2)
     ELSE /\ ops' = {l2}
          /\ sent' = {}
          /\ UNCHANGED <<loading, error, data, predictions, co2Value, done>>

\* the callback of list.map in load: one road's getLiveTraffic has settled
loadRoad(l, i, value, ok) ==
  LET id == l.list[i].id
      l2 == [l EXCEPT !.waiting = @ \ {i},
                      !.preds = Put(@, id, value),
                      !.rows = Append(@, [segment |-> id, time |-> "Now",
                                          vehicle_count |-> value]),
                      !.failed = IF ok THEN @ ELSE @ \cup {"traffic"},
                      !.zeroed = IF ok THEN @ ELSE @ \cup {id}]
  IN IF l2.waiting = {}
     THEN loadFinish(l2)
     ELSE /\ ops' = {l2}
          /\ sent' = {}
          /\ UNCHANGED <<loading, error, data, predictions, co2Value, done>>

DashTrafficOk(i, d) ==
  /\ path = "/dashboard"
  /\ \E l \in ops :
       /\ l.op = "load" /\ l.phase = "traffic" /\ i \in l.waiting
       /\ loadRoad(l, i, computeSeverity(d), TRUE)
  /\ UNCHANGED <<dashFrame, ecVars, aqVars>>

DashTrafficFail(i) ==
  /\ path = "/dashboard"
  /\ \E l \in ops :
       /\ l.op = "load" /\ l.phase = "traffic" /\ i \in l.waiting
       /\ loadRoad(l, i, 0, FALSE)
  /\ UNCHANGED <<dashFrame, ecVars, aqVars>>

\* /api/predict_today responses (res.data)
PredictResponses == {[avg_7d |-> 30, predicted_today |-> 50],
                     [avg_7d |-> 60, predicted_today |-> 20]}

\* rows[road.id] = row, on an object whose values are read in insertion order
RowsPut(rows, row) ==
  IF \E k \in 1..Len(rows) : rows[k].segment = row.segment
  THEN [k \in 1..Len(rows) |-> IF rows[k].segment = row.segment THEN row ELSE rows[k]]
  ELSE Append(rows, row)

\* loadPredictive(): everything up to the first await
loadPredictiveStart(st, s, login) ==
  /\ loading' = TRUE
  /\ error' = ""
  /\ data' = <<>>
  /\ predictions' = {}
  /\ ops' = {[op |-> "loadPredictive", phase |-> "roads", list |-> <<>>, i |-> 0,
              rows |-> <<>>, preds |-> {}, failed |-> {}, limit |-> s,
              asked |-> Asking({ApiRequest("/api/roads", st, login)})]}
  /\ sent' = {ApiRequest("/api/roads", st, login)}
  /\ UNCHANGED <<co2Value, storage>>

\* loadPredictive(): setData(Object.values(rows)); setPredictions(preds); finally
loadPredictiveFinish(l) ==
  /\ data' = l.rows
  /\ predictions' = l.preds
  /\ loading' = FALSE
  /\ ops' = {}
  /\ done' = Some([op |-> "loadPredictive", failed |-> l.failed])
  /\ sent' = {}
  /\ UNCHANGED <<error, co2Value>>

\* a catch block that only logs
loadPredictiveCatch_Silent(l, f) ==
  /\ loading' = FALSE
  /\ ops' = {}
  /\ done' = Some([op |-> "loadPredictive", failed |-> l.failed \cup {f}])
  /\ sent' = {}
  /\ UNCHANGED <<error, data, predictions, co2Value>>

\* loadPredictive(): catch (e); finally
loadPredictiveCatch(l, f) ==
  /\ error' = "Failed to load predictive traffic"
  /\ loading' = FALSE
  /\ ops' = {}
  /\ done' = Some([op |-> "loadPredictive", failed |-> l.failed \cup {f}])
  /\ sent' = {}
  /\ UNCHANGED <<data, predictions, co2Value>>

\* loadPredictive(): the for loop is about to await predictToday for road number i
loadPredictiveNext(l, i) ==
  IF i > Len(l.list)
  THEN loadPredictiveFinish(l)
  ELSE /\ ops' = {Ask([l EXCEPT !.phase = "predict", !.i = i],
                        {ForItem(ApiRequest("/api/predict_today", storage, lastLogin), i)})}
       /\ sent' = {ForItem(ApiRequest("/api/predict_today", storage, lastLogin), i)}
       /\ UNCHANGED <<loading, error, data, predictions, co2Value, done>>

PredRoadsOk(resp) ==
  /\ path = "/dashboard"
  /\ \E l \in ops :
       /\ l.op = "loadPredictive" /\ l.phase = "roads"
       /\ loadPredictiveNext(
            [l EXCEPT !.list = normalizeRoads(Val(Coalesce(resp, Some(<<>>))), l.limit)], 1)
  /\ UNCHANGED <<dashFrame, ecVars, aqVars>>

PredRoadsFail ==
  /\ path = "/dashboard"
  /\ \E l \in ops :
       /\ l.op = "loadPredictive" /\ l.phase = "roads"
       /\ loadPredictiveCatch(l, "roads")
  /\ UNCHANGED <<dashFrame, ecVars, aqVars>>

PredictOk(d) ==
  /\ path = "/dashboard"
  /\ \E l \in ops :
       /\ l.op = "loadPredictive" /\ l.phase = "predict"
       /\ LET id == l.list[l.i].id
              l2 == [l EXCEPT !.preds = Put(@, id, d.predicted_today),
                              !.rows = RowsPut(@, [segment |-> id, avg_7d |-> d.avg_7d,
                                                   predicted |-> d.predicted_today])]
          IN loadPredictiveNext(l2, l.i + 1)
  /\ UNCHANGED <<dashFrame, ecVars, aqVars>>

PredictFail ==
  /\ path = "/dashboard"
  /\ \E l \in ops :
       /\ l.op = "loadPredictive" /\ l.phase = "predict"
       /\ loadPredictiveCatch(l, "predict")
  /\ UNCHANGED <<dashFrame, ecVars, aqVars>>

\* the Update button: disabled while loading
DashUpdate ==
  /\ path = "/dashboard"
  /\ ~ loading
  /\ IF viewMode = "live"
     THEN loadStart(storage, city, segmentsNum, timeSteps, lastLogin)
     ELSE loadPredictiveStart(storage, segmentsNum, lastLogin) /\ UNCHANGED saved
  /\ alert' = None
  /\ done' = None
  /\ UNCHANGED <<path, lastLogin, city, segmentsNum, timeSteps, viewMode, roads, severity>>
  /\ UNCHANGED <<ecVars, aqVars, helperVars, indiaVars>>

\* onChange of the controls; a load in flight has captured the values it uses,
\* so the controls are moved between loads only
SetCity(c) ==
  /\ path \in {"/dashboard", "/map"}
  /\ ~ loading
  /\ city' = c
  /\ sent' = {}
  /\ UNCHANGED <<helperVars, indiaVars, idleVars, segmentsNum, timeSteps, viewMode, data, predictions, co2Value,
                 roads, severity, ecVars, aqVars>>

SetSegmentsNum(n) ==
  /\ path \in {"/dashboard", "/map"}
  /\ ~ loading
  /\ segmentsNum' = n
  /\ sent' = {}
  /\ UNCHANGED <<helperVars, indiaVars, idleVars, city, timeSteps, viewMode, data, predictions, co2Value,
                 roads, severity, ecVars, aqVars>>

SetTimeSteps(n) ==
  /\ path \in {"/dashboard", "/map"}
  /\ ~ loading
  /\ timeSteps' = n
  /\ sent' = {}
  /\ UNCHANGED <<helperVars, indiaVars, idleVars, city, segmentsNum, viewMode, data, predictions, co2Value,
                 roads, severity, ecVars, aqVars>>

SetViewMode(m) ==
  /\ path = "/dashboard"
  /\ ~ loading
  /\ viewMode' = m
  /\ sent' = {}
  /\ UNCHANGED <<helperVars, indiaVars, idleVars, city, segmentsNum, timeSteps, data, predictions, co2Value,
                 roads, severity, ecVars, aqVars>>

\* ---------------------------------------------------------------------
\* MapView
\* ---------------------------------------------------------------------
mapFrame == <<helperVars, indiaVars, path, storage, saved, alert, lastLogin, error, city, segmentsNum, timeSteps, viewMode,
              data, predictions>>

\* loadMapData(): everything up to the first await
loadMapDataStart(st, s, login) ==
  /\ loading' = TRUE
  /\ ops' = {NewLoad("loadMapData", s)}
  /\ sent' = LoadRequests(st, login)

\* loadMapData(): setSeverity(sevMap); finally
loadMapDataFinish(l) ==
  /\ severity' = l.preds
  /\ loading' = FALSE
  /\ ops' = {}
  /\ done' = Some([op |-> "loadMapData", failed |-> l.failed, displayed |-> TRUE,
                   list |-> l.list, zeroed |-> l.zeroed])
  /\ sent' = {}

\* loadMapData(): catch (e) { console.error(e) }; finally
loadMapDataCatch(l, f) ==
  /\ loading' = FALSE
  /\ ops' = {}
  /\ done' = Some([op |-> "loadMapData", failed |-> l.failed \cup {f}, displayed |-> FALSE])
  /\ sent' = {}
  /\ UNCHANGED <<roads, co2Value, severity>>

\* loadMapData(): after the first await: setRoads, setCo2Value, one getLiveTraffic
\* for each of list.slice(0, 40)
loadMapDataAfter(l2, reqs) ==
  IF ~ JoinReady(l2)
  THEN /\ ops' = {Ask(l2, reqs)}
       /\ sent' = reqs
       /\ UNCHANGED <<loading, roads, co2Value, severity, done>>
  ELSE LET list == normalizeRoads(Val(Coalesce(Val(l2.roadsResp), Some(<<>>))), l2.limit)
           first40 == SubSeq(list, 1, IF Len(list) > 40 THEN 40 ELSE Len(list))
       IN /\ roads' = list
          /\ co2Value' = l2.co
          /\ IF first40 = <<>>
             THEN loadMapDataFinish(l2)
             ELSE /\ ops' = {Ask([l2 EXCEPT !.phase = "traffic", !.list = first40,
                                            !.waiting = 1..Len(first40)],
                                   TrafficRequests(first40, storage, lastLogin))}
                  /\ sent' = TrafficRequests(first40, storage, lastLogin)
                  /\ UNCHANGED <<loading, severity, done>>

MapRoadsOk(resp) ==
  /\ path = "/map"
  /\ \E l \in ops :
       /\ l.op = "loadMapData" /\ l.phase = "roads" /\ l.roadsResp = None
       /\ loadMapDataAfter([l EXCEPT !.roadsResp = Some(resp)], {})
  /\ UNCHANGED <<mapFrame, ecVars, aqVars>>

MapRoadsFail ==
  /\ path = "/map"
  /\ \E l \in ops :
       /\ l.op = "loadMapData" /\ l.phase = "roads" /\ l.roadsResp = None
       /\ loadMapDataCatch(l, "roads")
  /\ UNCHANGED <<mapFrame, ecVars, aqVars>>

\* a step of fetchCO2ForCity inside loadMapData
MapCo(ev, co) ==
  /\ path = "/map"
  /\ \E l \in ops :
       /\ l.op = "loadMapData" /\ l.phase = "roads" /\ ev \in CoEvents(l)
       /\ LET l2 == fetchCO2ForCity(l, ev, co) IN loadMapDataAfter(l2, CoRequests(l2))
  /\ UNCHANGED <<mapFrame, ecVars, aqVars>>

\* the callback of list.slice(0, 40).map in loadMapData
loadMapDataRoad(l, i, value, ok) ==
  LET l2 == [l EXCEPT !.waiting = @ \ {i},
                      !.preds = Put(@, l.list[i].id, value),
                      !.failed = IF ok THEN @ ELSE @ \cup {"traffic"},
                      !.zeroed = IF ok THEN @ ELSE @ \cup {l.list[i].id}]
  IN IF l2.waiting = {}
     THEN loadMapDataFinish(l2) /\ UNCHANGED <<roads, co2Value>>
     ELSE /\ ops' = {l2}
          /\ sent' = {}
          /\ UNCHANGED <<loading, roads, co2Value, severity, done>>

MapTrafficOk(i, d) ==
  /\ path = "/map"
  /\ \E l \in ops :
       /\ l.op = "loadMapData" /\ l.phase = "traffic" /\ i \in l.waiting
       /\ loadMapDataRoad(l, i, computeSeverity(d), TRUE)
  /\ UNCHANGED <<mapFrame, ecVars, aqVars>>

MapTrafficFail(i) ==
  /\ path = "/map"
  /\ \E l \in ops :
       /\ l.op = "loadMapData" /\ l.phase = "traffic" /\ i \in l.waiting
       /\ loadMapDataRoad(l, i, 0, FALSE)
  /\ UNCHANGED <<mapFrame, ecVars, aqVars>>

\* handleSearch: the UPDATE button of the form, disabled while loading
MapUpdate ==
  /\ path = "/map"
  /\ ~ loading
  /\ storage' = savePrefs(storage, city, segmentsNum, timeSteps)
  /\ saved' = Some([city |-> city, segmentsNum |-> segmentsNum, timeSteps |-> timeSteps])
  /\ loadMapDataStart(storage, segmentsNum, lastLogin)
  /\ alert' = None
  /\ done' = None
  /\ UNCHANGED <<path, lastLogin, error, dashVars, ecVars, aqVars, helperVars, indiaVars>>

\* ---------------------------------------------------------------------
\* EmergencyCorridor
\* ---------------------------------------------------------------------

\* coordinates in units of 0.0001 degree
originDefault == [lat |-> 190760, lon |-> 728777]
destinationDefault == [lat |-> 192147, lon |-> 729780]

\* values typed into the address fields, and String.prototype.trim on them
AddressInputs == {"  "}
Trim(a) == IF a = "  " THEN "" ELSE a

\* responses of /api/geocode
GeoResponses == {[lat |-> 185204, lon |-> 738567]}

\* (Math.random() - 0.5) * 0.01 of updatePosition, in units of 0.0001 degree
LatJitters == {-50, 49}
LonJitters == {0}

\* responses of POST /api/emergency/request
RtA == [id |-> "rtA", cpAlts |-> None, alts |-> None]
RtB == [id |-> "rtB", cpAlts |-> None, alts |-> Some(<<"altC">>)]
CreateResponses ==
  {[request_id |-> Some("req1"), route |-> Some(RtA), cpAlts |-> Some(<<"altA">>), alts |-> None],
   [request_id |-> Some("req1"), route |-> None, cpAlts |-> None, alts |-> Some(<<"altB">>)],
   [request_id |-> None, route |-> Some(RtA), cpAlts |-> None, alts |-> None]}

\* responses of GET /api/emergency/status/{id}
StatusResponses ==
  {[request_id |-> Some("req1"), status |-> "active", route |-> Some(RtA), cpAlts |-> Some(<<"altA">>), alts |-> None],
   [request_id |-> Some("req1"), status |-> "pending", route |-> Some(RtB), cpAlts |-> None, alts |-> None],
   [request_id |-> Some("req1"), status |-> "active", route |-> None, cpAlts |-> None, alts |-> None]}

CreatedToast == <<"Corridor created, Signals synchronized, Route optimized, Traffic cleared">>
ActiveToast(id) == <<"Request ", id, " is active">>

\* setToast((cur) => (cur === message ? null : cur)): the callback of showToast's timer
ToastTimeout(cur, message) == IF cur = Some(message) THEN None ELSE cur

\* showToast(message, ms)
showToast(message, ms) ==
  /\ toast' = Some(message)
  /\ timers' = Append(timers, [kind |-> "toast", message |-> message, left |-> ms])
  /\ toastCall' = Some([message |-> message, elapsed |-> 0])

\* the operation records of the five handlers
ecFrame == <<helperVars, indiaVars, path, storage, saved, lastLogin, error, dashVars, aqVars>>

\* the early return of a handler: return alert(msg)
ecReject(name, msg) ==
  /\ alert' = Some(msg)
  /\ done' = Some([op |-> name, failed |-> {}])
  /\ sent' = {}
  /\ UNCHANGED <<ops, loading>>

\* try { setLoading(true); ... await call(...)
ecSend(rec, ep) ==
  /\ loading' = TRUE
  /\ ops' = ops \cup {WithAsked(rec, {FetchRequest(ep, TRUE)})}
  /\ sent' = {FetchRequest(ep, TRUE)}
  /\ alert' = None
  /\ done' = None

\* a catch block that sends the failed request once more
ecCatch_Retry(o, f, msg) ==
  /\ ops' = (ops \ {o}) \cup {Ask(o, {FetchRequest(k.ep, TRUE) : k \in BagToSet(o.asked)})}
  /\ sent' = {FetchRequest(k.ep, TRUE) : k \in BagToSet(o.asked)}
  /\ UNCHANGED <<alert, loading, done>>

\* catch { alert(msg) } finally { setLoading(false) }
ecCatch(o, f, msg) ==
  /\ alert' = Some(msg)
  /\ loading' = FALSE
  /\ ops' = ops \ {o}
  /\ done' = Some([op |-> o.op, failed |-> {f}])
  /\ sent' = {}

\* a handler without its finally block
ecFinally_NoReset(o) ==
  /\ ops' = ops \ {o}
  /\ done' = Some([op |-> o.op, failed |-> {}])
  /\ sent' = {}
  /\ UNCHANGED <<alert, loading>>

\* the try block ran to its end; finally { setLoading(false) }
ecFinally(o) ==
  /\ loading' = FALSE
  /\ ops' = ops \ {o}
  /\ done' = Some([op |-> o.op, failed |-> {}])
  /\ sent' = {}
  /\ UNCHANGED alert

\* geocodeOrigin() / geocodeDestination(): the Use buttons, disabled while loading
Geocode(which) ==
  /\ path = "/corridor"
  /\ ~ loading
  /\ Len(timers) < MaxTimers
  /\ LET address == IF which = "origin" THEN originAddress ELSE destinationAddress
     IN IF Trim(address) = ""
        THEN ecReject("geocode", "Enter " \o which \o " address")
        ELSE ecSend([op |-> "geocode", which |-> which], "/api/geocode")
  /\ UNCHANGED <<ecFrame, ecVars>>

GeocodeOk(geo) ==
  /\ path = "/corridor"
  /\ \E o \in ops :
       /\ o.op = "geocode"
       /\ IF o.which = "origin"
          THEN origin' = geo /\ UNCHANGED destination
          ELSE destination' = geo /\ UNCHANGED origin
       /\ timers' = Append(timers, [kind |-> "ambulance", pos |-> geo, left |-> GeoDelay])
       /\ ecFinally(o)
  /\ UNCHANGED <<ecFrame, originAddress, destinationAddress, requestId, status, alternatives,
                 route, ambulancePos, toast, toastCall>>

GeocodeFail ==
  /\ path = "/corridor"
  /\ \E o \in ops :
       /\ o.op = "geocode"
       /\ ecCatch(o, "geocode", "Failed to geocode " \o o.which)
  /\ UNCHANGED <<ecFrame, ecVars>>

\* createRequest(): the Create Corridor button, disabled while loading
CreateRequest ==
  /\ path = "/corridor"
  /\ ~ loading
  /\ Len(timers) < MaxTimers
  /\ ecSend([op |-> "createRequest", origin |-> origin], "/api/emergency/request")
  /\ UNCHANGED <<ecFrame, ecVars>>

CreateOk(res) ==
  /\ path = "/corridor"
  /\ \E o \in ops :
       /\ o.op = "createRequest"
       /\ IF res.request_id # None
          THEN /\ requestId' = res.request_id
               /\ route' = res.route
               /\ ambulancePos' = Some(o.origin)
               /\ alternatives' = Val(Coalesce(res.cpAlts, Coalesce(res.alts, Some(<<>>))))
               /\ status' = None
               /\ showToast(CreatedToast, ToastMs)
          ELSE UNCHANGED <<requestId, route, ambulancePos, alternatives, status,
                           toast, timers, toastCall>>
       /\ ecFinally(o)
  /\ UNCHANGED <<ecFrame, originAddress, destinationAddress, origin, destination>>

CreateFail ==
  /\ path = "/corridor"
  /\ \E o \in ops :
       /\ o.op = "createRequest"
       /\ ecCatch(o, "create", "Failed to create emergency request")
  /\ UNCHANGED <<ecFrame, ecVars>>

\* handlers without the requestId guard
NoRequest_Never(id) == FALSE

\* if (!requestId) return alert("Create request first!")
NoRequest(id) == id = None

\* updatePosition(): the handler of Send GPS Update.  The button is disabled while
\* loading; the handler itself is also taken with no request, the case its own
\* guard is written for
UpdatePosition(dlat, dlon) ==
  /\ path = "/corridor"
  /\ ~ loading
  /\ IF NoRequest(requestId)
     THEN ecReject("updatePosition", "Create request first!")
     ELSE ecSend([op |-> "updatePosition",
                  pos |-> [lat |-> origin.lat + dlat, lon |-> origin.lon + dlon]],
                 "/api/emergency/update_position")
  /\ UNCHANGED <<ecFrame, ecVars>>

UpdateOk ==
  /\ path = "/corridor"
  /\ \E o \in ops :
       /\ o.op = "updatePosition"
       /\ ambulancePos' = Some(o.pos)
       /\ ecFinally(o)
  /\ UNCHANGED <<ecFrame, originAddress, destinationAddress, origin, destination,
                 requestId, status, alternatives, route, toast, timers, toastCall>>

UpdateFail ==
  /\ path = "/corridor"
  /\ \E o \in ops :
       /\ o.op = "updatePosition"
       /\ ecCatch(o, "update", "Failed to update position")
  /\ UNCHANGED <<ecFrame, ecVars>>

\* checkStatus(): the handler of Refresh, taken like updatePosition
CheckStatus ==
  /\ path = "/corridor"
  /\ ~ loading
  /\ Len(timers) < MaxTimers
  /\ IF NoRequest(requestId)
     THEN ecReject("checkStatus", "Create request first!")
     ELSE ecSend([op |-> "checkStatus", requestId |-> requestId],
                 "/api/emergency/status")
  /\ UNCHANGED <<ecFrame, ecVars>>

StatusOk(s) ==
  /\ path = "/corridor"
  /\ \E o \in ops :
       /\ o.op = "checkStatus"
       /\ status' = Some(s)
       /\ IF s.status = "active"
          THEN showToast(ActiveToast(Val(Coalesce(o.requestId, s.request_id))), ToastMs)
          ELSE UNCHANGED <<toast, timers, toastCall>>
       /\ route' = Coalesce(s.route, Some(s))
       /\ alternatives' =
            Val(Coalesce(s.cpAlts,
                Coalesce(s.alts,
                Coalesce(IF s.route = None THEN None
                         ELSE Coalesce(Val(s.route).cpAlts, Val(s.route).alts),
                         Some(<<>>)))))
       /\ ecFinally(o)
  /\ UNCHANGED <<ecFrame, originAddress, destinationAddress, origin, destination,
                 requestId, ambulancePos>>

StatusFail ==
  /\ path = "/corridor"
  /\ \E o \in ops :
       /\ o.op = "checkStatus"
       /\ ecCatch(o, "status", "Failed to fetch status")
  /\ UNCHANGED <<ecFrame, ecVars>>

\* onChange of the address fields, between operations
SetOriginAddress(a) ==
  /\ path = "/corridor"
  /\ ~ loading
  /\ originAddress' = a
  /\ sent' = {}
  /\ UNCHANGED <<helperVars, indiaVars, idleVars, dashVars, aqVars, destinationAddress, origin, destination,
                 requestId, status, alternatives, route, ambulancePos, toast, timers, toastCall>>

SetDestinationAddress(a) ==
  /\ path = "/corridor"
  /\ ~ loading
  /\ destinationAddress' = a
  /\ sent' = {}
  /\ UNCHANGED <<helperVars, indiaVars, idleVars, dashVars, aqVars, originAddress, origin, destination,
                 requestId, status, alternatives, route, ambulancePos, toast, timers, toastCall>>

\* ----- window timers -----

\* the timer that fires next: the earliest created among those that are due
DueTimer(k) ==
  /\ k \in 1..Len(timers)
  /\ timers[k].left = 0
  /\ \A j \in 1..(k - 1) : timers[j].left # 0

RemoveAt(q, k) == SubSeq(q, 1, k - 1) \o SubSeq(q, k + 1, Len(q))

\* a due setTimeout callback runs
TimerFire ==
  /\ path = "/corridor"
  /\ \E k \in 1..Len(timers) :
       /\ DueTimer(k)
       /\ timers' = RemoveAt(timers, k)
       /\ IF timers[k].kind = "toast"
          THEN toast' = ToastTimeout(toast, timers[k].message) /\ UNCHANGED ambulancePos
          ELSE ambulancePos' = Some(timers[k].pos) /\ UNCHANGED toast
  /\ sent' = {}
  /\ UNCHANGED <<helperVars, indiaVars, idleVars, dashVars, aqVars, originAddress, destinationAddress, origin,
                 destination, requestId, status, alternatives, route, toastCall>>

\* one tick of time passes; a due timer runs before time moves on
Tick ==
  /\ path = "/corridor"
  /\ \A k \in 1..Len(timers) : timers[k].left > 0
  /\ timers # <<>> \/ (toastCall # None /\ Val(toastCall).elapsed < ToastMs)
  /\ timers' = [k \in 1..Len(timers) |-> [timers[k] EXCEPT !.left = @ - 1]]
  /\ toastCall' = IF toastCall = None THEN None
                  ELSE Some([Val(toastCall) EXCEPT
                               !.elapsed = IF @ < ToastMs THEN @ + 1 ELSE @])
  /\ sent' = {}
  /\ UNCHANGED <<helperVars, indiaVars, idleVars, dashVars, aqVars, originAddress, destinationAddress, origin,
                 destination, requestId, status, alternatives, route, ambulancePos, toast>>

\* ---------------------------------------------------------------------
\* AirQuality (src/App.jsx)
\* ---------------------------------------------------------------------
QueryInputs == {"Pune"}

\* data.results[0] of the geocoding responses
GeocodeCityResults == {[name |-> "Calcutta", country |-> Some("India"), lat |-> 22, lon |-> 88],
                       [name |-> "Pune", country |-> None, lat |-> 18, lon |-> 73]}

\* responses of the air-quality API
AirQualityResponses == {[us_aqi |-> 42]}

\* geocodeCity(name): the value it returns for the first result
geocodeCity(r) ==
  LET fixedName == IF r.name = "Calcutta" THEN "Kolkata"
                   ELSE IF r.name = "Bombay" THEN "Mumbai"
                   ELSE IF r.name = "Bangalore" THEN "Bengaluru"
                   ELSE IF r.name = "Madras" THEN "Chennai"
                   ELSE r.name
  IN [lat |-> r.lat, lon |-> r.lon,
      label |-> IF r.country # None THEN fixedName \o ", " \o Val(r.country) ELSE fixedName]

locationDefault == [lat |-> 22, lon |-> 88, label |-> "Kolkata, India"]

aqFrame == <<helperVars, indiaVars, path, storage, saved, alert, lastLogin, dashVars, ecVars, query>>

\* the record of a load that has just sent reqs
NewAqLoad(phase, reqs) == [op |-> "aqLoad", phase |-> phase, failed |-> {}, asked |-> Asking(reqs)]

\* load(fromButton): everything up to the first await
aqLoadStart(fromButton, aq) ==
  /\ loading' = TRUE
  /\ error' = ""
  /\ IF fromButton \/ aq = None
     THEN /\ ops' = {NewAqLoad("geocode", {FetchRequest("open-meteo/geocoding", FALSE)})}
          /\ sent' = {FetchRequest("open-meteo/geocoding", FALSE)}
     ELSE /\ ops' = {NewAqLoad("airQuality", {FetchRequest("open-meteo/air-quality", FALSE)})}
          /\ sent' = {FetchRequest("open-meteo/air-quality", FALSE)}

\* load(): catch (e) { setError(e.message || "Failed to load air quality") }; finally
aqLoadCatch(o, f, message) ==
  /\ error' = IF message # "" THEN message ELSE "Failed to load air quality"
  /\ loading' = FALSE
  /\ ops' = {}
  /\ done' = Some([op |-> "aqLoad", failed |-> o.failed \cup f])
  /\ sent' = {}
  /\ UNCHANGED <<location, aqData>>

\* the Search button, disabled while loading
AqSearch ==
  /\ path = "/aqi"
  /\ ~ loading
  /\ aqLoadStart(TRUE, aqData)
  /\ done' = None
  /\ UNCHANGED <<aqFrame, location, aqData>>

\* geocodeCity resolved with a first result
AqGeocodeOk(r) ==
  /\ path = "/aqi"
  /\ \E o \in ops :
       /\ o.op = "aqLoad" /\ o.phase = "geocode"
       /\ location' = geocodeCity(r)
       /\ ops' = {Ask([o EXCEPT !.phase = "airQuality"], {FetchRequest("open-meteo/air-quality", FALSE)})}
       /\ sent' = {FetchRequest("open-meteo/air-quality", FALSE)}
  /\ UNCHANGED <<aqFrame, aqData, error, loading, done>>

\* geocodeCity threw: the fetch rejected, the status was not OK, or there was no result
AqGeocodeFail(why) ==
  /\ path = "/aqi"
  /\ \E o \in ops :
       /\ o.op = "aqLoad" /\ o.phase = "geocode"
       /\ IF why = "reject" THEN aqLoadCatch(o, {"aqgeo"}, "Failed to fetch")
          ELSE IF why = "notOk" THEN aqLoadCatch(o, {"aqgeo"}, "Failed to geocode city")
          ELSE aqLoadCatch(o, {}, "Location not found")
  /\ UNCHANGED aqFrame

AqDataOk(d) ==
  /\ path = "/aqi"
  /\ \E o \in ops :
       /\ o.op = "aqLoad" /\ o.phase = "airQuality"
       /\ aqData' = Some(d)
       /\ loading' = FALSE
       /\ ops' = {}
       /\ done' = Some([op |-> "aqLoad", failed |-> o.failed])
       /\ sent' = {}
  /\ UNCHANGED <<aqFrame, location, error>>

AqDataFail(why) ==
  /\ path = "/aqi"
  /\ \E o \in ops :
       /\ o.op = "aqLoad" /\ o.phase = "airQuality"
       /\ IF why = "reject" THEN aqLoadCatch(o, {"aq"}, "Failed to fetch")
          ELSE aqLoadCatch(o, {"aq"}, "Failed to fetch air quality")
  /\ UNCHANGED aqFrame

SetQuery(q) ==
  /\ path = "/aqi"
  /\ ~ loading
  /\ query' = q
  /\ sent' = {}
  /\ UNCHANGED <<helperVars, indiaVars, idleVars, dashVars, ecVars, location, aqData>>

\* ---------------------------------------------------------------------
\* EmergencyCorridor: pure helpers
\* ---------------------------------------------------------------------
AVG_SPEED_KMPH == 30

\* n / d rounded to the nearest integer, halves upwards
RoundDiv(n, d) == (2 * n + d) \div (2 * d)

\* (n / d).toFixed(1), as a number of tenths
toFixed1(n, d) == RoundDiv(10 * n, d)

\* a numeric field that is present and not zero
TruthyNumber(o) == o # None /\ Val(o) # 0

\* etaMinutesFromRoute(routeObj): tenths of a minute, None for the dash
etaMinutesFromRoute(routeObj) ==
  IF routeObj = None THEN None
  ELSE LET r == Val(routeObj)
       IN IF TruthyNumber(r.duration_s) THEN Some(toFixed1(Val(r.duration_s), 60))
          ELSE IF TruthyNumber(r.distance_m)
          THEN \* estSeconds = distance_m / ((AVG_SPEED_KMPH * 1000) / 3600); estSeconds / 60
               Some(toFixed1(Val(r.distance_m) * 3600, AVG_SPEED_KMPH * 1000 * 60))
          ELSE None

\* route objects handed to etaMinutesFromRoute; the values are multiples of 0.1 minute
\* at 30 and at 40 km/h, where toFixed(1) does not round
RouteInputs ==
  {None} \cup
  {Some([duration_s |-> d, distance_m |-> m]) :
     d \in {None, Some(0), Some(60), Some(90), Some(600)},
     m \in {None, Some(0), Some(1000), Some(2000), Some(4000)}}

\* getTrafficColor with the red band starting at 66
getTrafficColor_Red66(severity_pct) ==
  IF severity_pct.kind # "number" THEN "#0ea5e9"
  ELSE LET p == severity_pct.v
       IN IF p >= 66 THEN "#b91c1c"
          ELSE IF p > 33 THEN "#eab308"
          ELSE "#16a34a"

\* getTrafficColor(severity_pct)
getTrafficColor(severity_pct) ==
  IF severity_pct.kind # "number" THEN "#0ea5e9"
  ELSE LET p == severity_pct.v
       IN IF p > 66 THEN "#b91c1c"
          ELSE IF p > 33 THEN "#eab308"
          ELSE "#16a34a"

\* severities handed to getTrafficColor: null, undefined, NaN, a string that is
\* not a number, and integers
SeverityInputs ==
  {[kind |-> k] : k \in {"null", "undefined", "NaN", "string"}} \cup
  {[kind |-> "number", v |-> n] : n \in -2..102}

\* ---------------------------------------------------------------------
\* MapView: the mask around India
\* ---------------------------------------------------------------------
\* The map is divided into cells; a ring is the set of cells it encloses,
\* a polygon is the sequence of its rings, the exterior ring first.
WorldCells == 1..5

\* the ring [-180,-90], [180,-90], [180,90], [-180,90], [-180,-90]
outer == <<WorldCells>>

PolyA == <<{1}>>
PolyB == <<{2, 3}, {3}>>
PolyC == <<{4}>>
Polys == {PolyA, PolyB, PolyC}

\* the sequences of at most n distinct elements of S
RECURSIVE Arrangements(_, _)
Arrangements(S, n) == IF n = 0 THEN {<<>>} ELSE LET prev == Arrangements(S, n - 1) IN prev \cup UNION {{Append(q, x) : x \in S \ {q[k] : k \in 1..Len(q)}} : q \in prev}

Geometry(t, coords) == Some([type |-> t, coordinates |-> coords])

\* the arguments of buildIndiaMaskGeoJSON: no feature, a feature without geometry or
\* with a geometry of another type, a Polygon, a MultiPolygon of at most MaxPolys
\* sub-polygons
IndiaFeatures ==
  {None, Some([geometry |-> None]), Some([geometry |-> Geometry("Point", <<>>)])} \cup
  {Some([geometry |-> Geometry("Polygon", poly)]) : poly \in Polys} \cup
  {Some([geometry |-> Geometry("MultiPolygon", mp)]) : mp \in Arrangements(Polys, MaxPolys)}

\* one mask polygon: the outer ring followed by the rings of an India polygon
MaskPolygon(rings) == [type |-> "Feature", geometry |-> [type |-> "Polygon", coordinates |-> outer \o rings]]

\* buildIndiaMaskGeoJSON(indiaFeature)
buildIndiaMaskGeoJSON(feature) ==
  IF feature = None THEN None
  ELSE LET geom == Val(feature).geometry
       IN IF geom = None THEN None
          ELSE IF Val(geom).type = "Polygon"
          THEN Some(MaskPolygon(Val(geom).coordinates))
          ELSE IF Val(geom).type = "MultiPolygon"
          THEN Some([type |-> "FeatureCollection",
                     features |-> [k \in 1..Len(Val(geom).coordinates) |->
                                     MaskPolygon(Val(geom).coordinates[k])]])
          ELSE None

\* the GeoJSON layers MapView renders for maskGeo: the feature itself, or one
\* layer per feature of a FeatureCollection
MaskLayers(mask) ==
  IF mask = None THEN <<>>
  ELSE IF Val(mask).type = "Feature" THEN <<Val(mask)>>
  ELSE IF Val(mask).type = "FeatureCollection" THEN Val(mask).features
  ELSE <<>>

\* a polygon drawn with its fill covers a cell enclosed by an odd number of its rings
Filled(rings, c) == Cardinality({k \in 1..Len(rings) : c \in rings[k]}) % 2 = 1

\* ---------------------------------------------------------------------
\* MapView: fetchIndia, the mount effect that loads the India polygon.  Its
\* continuation outlives the page (the effect's cleanup only sets cancelled),
\* so a run stays in india until its last response has arrived.
\* ---------------------------------------------------------------------
localUrl == "/india.geojson"
FALLBACK_COUNTRIES_GEOJSON == "https://datahub.io/core/geo-countries/r/countries.geojson"

\* a || b
OrElse(a, b) == IF Truthy(a) THEN a ELSE b

\* (... || "").toString().toLowerCase().includes("india")
includesIndia(o) == Truthy(o) /\ Val(o) \in {"India", "INDIA", "india"}

NoProperties == [ADMIN |-> None, admin |-> None, NAME |-> None, name |-> None, ISO_A3 |-> None]
CountryFeature(props, poly) == [type |-> "Feature", properties |-> props, geometry |-> Geometry("Polygon", poly)]

\* features of the GeoJSON files: India under the property names the two
\* branches read, India known by its ISO code only, and another country
IndiaAdmin == CountryFeature([NoProperties EXCEPT !.ADMIN = Some("India"), !.ISO_A3 = Some("IND")], PolyA)
IndiaLower == CountryFeature([NoProperties EXCEPT !.admin = Some("india")], PolyA)
IndiaIso == CountryFeature([NoProperties EXCEPT !.ISO_A3 = Some("IND")], PolyB)
Nepal == CountryFeature([NoProperties EXCEPT !.ADMIN = Some("Nepal"), !.ISO_A3 = Some("NPL")], PolyC)

FeatureCollection(fs) == [type |-> "FeatureCollection", features |-> fs]

\* what public/india.geojson can hold, and what the countries dataset can hold
LocalJsons == {FeatureCollection(<<Nepal, IndiaLower>>), FeatureCollection(<<Nepal>>), FeatureCollection(<<>>), IndiaIso, [type |-> "Topology"]}
FallbackJsons == {FeatureCollection(<<Nepal, IndiaAdmin>>), FeatureCollection(<<Nepal, IndiaIso>>), FeatureCollection(<<Nepal>>), IndiaAdmin}

\* the outcomes of fetch(url) followed by r.json()
FetchOutcomes(jsons) == {[outcome |-> w, json |-> None] : w \in {"reject", "notOk", "badJson"}} \cup {[outcome |-> "ok", json |-> Some(j)] : j \in jsons}

\* features.find(...): the first of the features, at the positions hits, that pass the test
Find(features, hits) ==
  IF hits = {} THEN None
  ELSE Some(features[CHOOSE k \in hits : \A h \in hits : k <= h])

localNamed(f) == includesIndia(OrElse(OrElse(f.properties.ADMIN, f.properties.admin), f.properties.NAME))
fallbackNamed(f) == includesIndia(OrElse(OrElse(f.properties.ADMIN, f.properties.NAME), f.properties.name))
isoIND(f) == f.properties.ISO_A3 = Some("IND")

\* fetchIndia, local branch: the feature named India, else the first feature,
\* of a FeatureCollection; a Feature itself
localFeat(j) ==
  IF j.type = "FeatureCollection"
  THEN LET named == Find(j.features, {k \in 1..Len(j.features) : localNamed(j.features[k])})
       IN IF named # None THEN named
          ELSE IF Len(j.features) > 0 THEN Some(j.features[1]) ELSE None
  ELSE IF j.type = "Feature" THEN Some(j)
  ELSE None

\* fetchIndia, fallback branch: the feature named India, else the one whose ISO_A3 is IND
fallbackFeat(j) ==
  IF j.type = "FeatureCollection"
  THEN LET named == Find(j.features, {k \in 1..Len(j.features) : fallbackNamed(j.features[k])})
       IN IF named # None THEN named ELSE Find(j.features, {k \in 1..Len(j.features) : isoIND(j.features[k])})
  ELSE None

\* a run of fetchIndia that has just requested the local file
NewIndia == [phase |-> "local", cancelled |-> FALSE, local |-> None, asked |-> Asking({FetchRequest(localUrl, FALSE)})]

\* the effect's cleanup sets cancelled in the runs of the page being left; a run
\* that had finished has nothing left to do
CancelIndia(runs) == {[o EXCEPT !.cancelled = TRUE] : o \in {r \in runs : r.phase # "done"}}

\* setIndiaFeature(feat); setBorderGeo(feat); setMaskGeo(buildIndiaMaskGeoJSON(feat))
useFeature(feat) ==
  /\ indiaFeature' = feat
  /\ borderGeo' = feat
  /\ maskGeo' = buildIndiaMaskGeoJSON(feat)

indiaFrame == <<idleVars, dashVars, ecVars, aqVars, helperVars>>

\* the response to fetch(localUrl): a feature found while the page is mounted
\* ends the run; everything else goes on to the fallback request
IndiaLocal(r) ==
  /\ \E o \in india :
       /\ o.phase = "local"
       /\ LET feat == IF r.outcome = "ok" /\ ~o.cancelled THEN localFeat(Val(r.json)) ELSE None
          IN IF feat # None
             THEN /\ useFeature(feat)
                  /\ india' = (india \ {o}) \cup {[o EXCEPT !.phase = "done", !.local = Some(r)]}
                  /\ sent' = {}
             ELSE /\ india' = (india \ {o}) \cup {Ask([o EXCEPT !.phase = "fallback", !.local = Some(r)], {FetchRequest(FALLBACK_COUNTRIES_GEOJSON, FALSE)})}
                  /\ sent' = {FetchRequest(FALLBACK_COUNTRIES_GEOJSON, FALSE)}
                  /\ UNCHANGED <<indiaFeature, borderGeo, maskGeo>>
  /\ UNCHANGED indiaFrame

\* the response to fetch(FALLBACK_COUNTRIES_GEOJSON)
IndiaFallback(r) ==
  /\ \E o \in india :
       /\ o.phase = "fallback"
       /\ LET feat == IF r.outcome = "ok" /\ ~o.cancelled THEN fallbackFeat(Val(r.json)) ELSE None
          IN IF feat # None
             THEN useFeature(feat)
             ELSE UNCHANGED <<indiaFeature, borderGeo, maskGeo>>
       /\ india' = (india \ {o}) \cup (IF o.cancelled THEN {} ELSE {[o EXCEPT !.phase = "done"]})
       /\ sent' = {}
  /\ UNCHANGED indiaFrame


\* the number of rendered mask layers that shade cell c
ShadeCount(mask, c) ==
  LET layers == MaskLayers(mask)
  IN Cardinality({k \in 1..Len(layers) : Filled(layers[k].geometry.coordinates, c)})


\* ---------------------------------------------------------------------
\* EmergencyCorridor: normalizePoint and groupSegments
\* ---------------------------------------------------------------------
\* "group every N small segments into one"
SEGMENT_GROUP_SIZE == 5

\* Math.abs
Abs(x) == IF x < 0 THEN -x ELSE x

\* a test that also takes 90 itself for a longitude
looksLikeLonLat_From90(a0, a1) == Abs(a0) >= 90 /\ Abs(a1) <= 90

\* Math.abs(a0) > 90 && Math.abs(a1) <= 90: "looks like [lon, lat] -> swap"
looksLikeLonLat(a0, a1) == Abs(a0) > 90 /\ Abs(a1) <= 90

\* Number(x) of a number or of null / undefined
NumberOf(o) == IF o = None THEN 0 ELSE Val(o)

\* p[k] of an array with k counted from 0, undefined beyond its end
At(v, k) == IF k + 1 <= Len(v) THEN Some(v[k + 1]) ELSE None

\* the arguments: null, an array of numbers, an object with some of the fields
\* lat, lon and severity_pct
CoordInputs == {-181, -180, -91, -90, 0, 90, 91, 180, 181}
PointArrays == {<<>>, <<91>>, <<0, 91, 7>>, <<91, 0, 7>>} \cup {<<a0, a1>> : a0 \in CoordInputs, a1 \in CoordInputs}
PointObjects == {[lat |-> la, lon |-> lo, severity_pct |-> sv] : la \in {None, Some(19)}, lo \in {None, Some(72)}, sv \in {None, Some(40)}}
PointInputs == {[kind |-> "null"]} \cup {[kind |-> "array", elems |-> v] : v \in PointArrays} \cup {[kind |-> "object", fields |-> o] : o \in PointObjects}

\* normalizePoint(p); all the numbers of PointInputs are finite, so the object
\* form always returns at its Number.isFinite test
normalizePoint(p) ==
  IF p.kind = "null" THEN None
  ELSE IF p.kind = "array" /\ Len(p.elems) >= 2
  THEN LET a0 == p.elems[1]
           a1 == p.elems[2]
       IN IF looksLikeLonLat(a0, a1)
          THEN Some([lat |-> a1, lon |-> a0, severity |-> None])
          ELSE Some([lat |-> a0, lon |-> a1, severity |-> None])
  ELSE IF p.kind = "array"
  THEN Some([lat |-> NumberOf(Coalesce(At(p.elems, 1), At(p.elems, 0))),
             lon |-> NumberOf(Coalesce(At(p.elems, 0), At(p.elems, 1))),
             severity |-> None])
  ELSE Some([lat |-> NumberOf(p.fields.lat), lon |-> NumberOf(p.fields.lon), severity |-> p.fields.severity_pct])

\* a segment that runs from the point 2i to the point 2i + 1 of a line, and one
\* whose two points both lie at the origin
Move(i) == [pts |-> <<(<<2 * i, 0>>), (<<2 * i + 1, 0>>)>>, severity |-> Some(40)]
Parked == [pts |-> <<(<<0, 0>>), (<<0, 0>>)>>, severity |-> None]

\* the segment lists: at every position either the moving or the parked segment
SegmentLists == UNION {{[i \in 1..n |-> IF m[i] THEN Move(i) ELSE Parked] : m \in [1..n -> BOOLEAN]} : n \in 0..MaxSegments}
SegmentInputs == {[kind |-> "null"]} \cup {[kind |-> "array", list |-> v] : v \in SegmentLists}

\* sevs.reduce((a, b) => a + b, 0) / sevs.length, kept as a fraction
RECURSIVE SumSeq(_)
SumSeq(q) == IF q = <<>> THEN 0 ELSE q[1] + SumSeq(Tail(q))
Mean(sevs) == [sum |-> SumSeq(sevs), count |-> Len(sevs)]

\* pts.filter((p, idx) => idx === 0 || the previous point differs)
RECURSIVE cleaned(_, _)
cleaned(pts, idx) ==
  IF idx > Len(pts) THEN <<>>
  ELSE (IF idx = 1 \/ pts[idx - 1] # pts[idx] THEN <<pts[idx]>> ELSE <<>>) \o cleaned(pts, idx + 1)

\* a slice without its end index: segments.slice(i)
slice_ToEnd(segments, i) == SubSeq(segments, i, Len(segments))

\* segments.slice(i, i + SEGMENT_GROUP_SIZE), with i counted from 1
slice(segments, i) == SubSeq(segments, i, IF i + SEGMENT_GROUP_SIZE - 1 < Len(segments) THEN i + SEGMENT_GROUP_SIZE - 1 ELSE Len(segments))

\* one turn of the for loop of groupSegments: the slice that starts at segment
\* number i (counted from 1), then the turns that follow
RECURSIVE groupFrom(_, _)
groupFrom(segments, i) ==
  IF i > Len(segments) THEN <<>>
  ELSE LET sl == slice(segments, i)
           pts == sl[1].pts \o [j \in 1..(Len(sl) - 1) |-> sl[j + 1].pts[Len(sl[j + 1].pts)]]
           sevs == [k \in 1..Len(SelectSeq(sl, LAMBDA x : x.severity # None)) |-> Val(SelectSeq(sl, LAMBDA x : x.severity # None)[k].severity)]
           avg == IF sevs # <<>> THEN Some(Mean(sevs)) ELSE None
           kept == cleaned(pts, 1)
       IN (IF Len(kept) >= 2 THEN <<[pts |-> kept, severity |-> avg]>> ELSE <<>>) \o groupFrom(segments, i + SEGMENT_GROUP_SIZE)

\* groupSegments(segments)
groupSegments(segments) ==
  IF segments.kind # "array" \/ Len(segments.list) = 0 THEN <<>>
  ELSE groupFrom(segments.list, 1)

Calls ==
  {[fn |-> "etaMinutesFromRoute", arg |-> r] : r \in RouteInputs} \cup
  {[fn |-> "getTrafficColor", arg |-> v] : v \in SeverityInputs} \cup
  {[fn |-> "buildIndiaMaskGeoJSON", arg |-> f] : f \in IndiaFeatures} \cup
  {[fn |-> "normalizePoint", arg |-> p] : p \in PointInputs} \cup
  {[fn |-> "groupSegments", arg |-> q] : q \in SegmentInputs}

pageVars == <<commonVars, dashVars, ecVars, aqVars, indiaVars>>

\* the render of EmergencyCorridor applies a helper
EtaMinutesFromRoute ==
  /\ call # None /\ Val(call).fn = "etaMinutesFromRoute"
  /\ result = None
  /\ result' = Some(etaMinutesFromRoute(Val(call).arg))
  /\ UNCHANGED <<pageVars, call>>

GetTrafficColor ==
  /\ call # None /\ Val(call).fn = "getTrafficColor"
  /\ result = None
  /\ result' = Some(getTrafficColor(Val(call).arg))
  /\ UNCHANGED <<pageVars, call>>

BuildIndiaMaskGeoJSON ==
  /\ call # None /\ Val(call).fn = "buildIndiaMaskGeoJSON"
  /\ result = None
  /\ result' = Some(buildIndiaMaskGeoJSON(Val(call).arg))
  /\ UNCHANGED <<pageVars, call>>

NormalizePoint ==
  /\ call # None /\ Val(call).fn = "normalizePoint"
  /\ result = None
  /\ result' = Some(normalizePoint(Val(call).arg))
  /\ UNCHANGED <<pageVars, call>>

GroupSegments ==
  /\ call # None /\ Val(call).fn = "groupSegments"
  /\ result = None
  /\ result' = Some(groupSegments(Val(call).arg))
  /\ UNCHANGED <<pageVars, call>>

\* ---------------------------------------------------------------------
\* mounting a page: the state after construction and the mount effects
\* ---------------------------------------------------------------------
\* the state a page component has after construction and its mount effects
\* (useState initialisers, useEffect(() => { load() }, [])), given the storage
MountState(p, st, login) ==
  LET seg == InitialNumber(st, "trafficSegments", DefaultSegments)
      steps == InitialNumber(st, "trafficTimeSteps", DefaultTimeSteps)
      onDash == p = "/dashboard"
      onMap == p = "/map"
      prefs == IF onDash \/ onMap THEN st ELSE EmptyStorage
  IN [storage |-> IF onDash THEN savePrefs(st, InitialCity(st), seg, steps) ELSE st,
      saves |-> onDash,
      sent |-> IF onDash THEN LoadRequests(st, login)
               ELSE IF onMap THEN LoadRequests(st, login) \cup {FetchRequest(localUrl, FALSE)}
               ELSE IF p = "/aqi" THEN {FetchRequest("open-meteo/geocoding", FALSE)}
               ELSE {},
      ops |-> IF onDash THEN {NewLoad("load", seg)}
              ELSE IF onMap THEN {NewLoad("loadMapData", seg)}
              ELSE IF p = "/aqi" THEN {NewAqLoad("geocode", {FetchRequest("open-meteo/geocoding", FALSE)})}
              ELSE {},
      loading |-> p \in {"/dashboard", "/map", "/aqi"},
      city |-> InitialCity(prefs),
      segmentsNum |-> InitialNumber(prefs, "trafficSegments", DefaultSegments),
      timeSteps |-> InitialNumber(prefs, "trafficTimeSteps", DefaultTimeSteps)]

\* the values every page starts from
Fresh(error_, viewMode_, data_, predictions_, co2Value_, roads_, severity_, originAddress_, destinationAddress_, origin_, destination_, requestId_, status_, alternatives_, route_, ambulancePos_, toast_, timers_, toastCall_, query_, location_, aqData_) ==
  /\ error_ = "" /\ viewMode_ = "live"
  /\ data_ = <<>> /\ predictions_ = {} /\ co2Value_ = None
  /\ roads_ = <<>> /\ severity_ = {}
  /\ originAddress_ = "Andheri, Mumbai" /\ destinationAddress_ = "Fort, Mumbai"
  /\ origin_ = originDefault /\ destination_ = destinationDefault
  /\ requestId_ = None /\ status_ = None /\ alternatives_ = <<>> /\ route_ = None
  /\ ambulancePos_ = None /\ toast_ = None /\ timers_ = <<>> /\ toastCall_ = None
  /\ query_ = "Kolkata" /\ location_ = locationDefault /\ aqData_ = None

MountPage(p, st, login) ==
  LET m == MountState(p, st, login)
  IN /\ path' = p
     /\ storage' = m.storage /\ sent' = m.sent /\ ops' = m.ops /\ loading' = m.loading
     /\ city' = m.city /\ segmentsNum' = m.segmentsNum /\ timeSteps' = m.timeSteps
     /\ saved' = IF m.saves
                 THEN Some([city |-> m.city, segmentsNum |-> m.segmentsNum,
                            timeSteps |-> m.timeSteps])
                 ELSE saved
     /\ india' = CancelIndia(india) \cup (IF p = "/map" THEN {NewIndia} ELSE {})
     /\ indiaFeature' = None /\ borderGeo' = None /\ maskGeo' = None
     /\ UNCHANGED helperVars
     /\ Fresh(error', viewMode', data', predictions', co2Value', roads', severity',
              originAddress', destinationAddress', origin', destination',
              requestId', status', alternatives', route', ambulancePos', toast', timers',
              toastCall', query', location', aqData')

Paths == {"/", "/dashboard", "/map", "/corridor", "/aqi"}

\* a Navbar link to another page
Navigate(p) ==
  /\ p # path
  /\ MountPage(p, storage, lastLogin)
  /\ alert' = None
  /\ done' = Some([op |-> "mount", failed |-> {}])
  /\ UNCHANGED lastLogin

\* ---------------------------------------------------------------------
\* Login
\* ---------------------------------------------------------------------

\* go(): await loginUser(u, p)
LoginGo ==
  /\ path = "/"
  /\ Cardinality(ops) < MaxLoginPending
  /\ ops' = ops \cup {[op |-> "go",
                       id |-> CHOOSE n \in 1..MaxLoginPending : \A o \in ops : o.id # n,
                       asked |-> Asking({ApiRequest("/api/login", storage, lastLogin)})]}
  /\ sent' = {ApiRequest("/api/login", storage, lastLogin)}
  /\ alert' = None
  /\ done' = None
  /\ UNCHANGED <<path, storage, saved, lastLogin, error, loading, dashVars, ecVars, aqVars,
                 helperVars, indiaVars>>

\* a then branch that stores nothing
goThen_NoStore(st, tok) == st

\* go(): localStorage.setItem("md_jwt", r.data.access_token); n("/dashboard")
goThen(st, tok) == setItem(st, "md_jwt", tok)

LoginOk(tok) ==
  /\ path = "/"
  /\ \E o \in ops : o.op = "go"
  /\ MountPage("/dashboard", goThen(storage, tok), Some(tok))
  /\ lastLogin' = Some(tok)
  /\ alert' = None
  /\ done' = Some([op |-> "go", failed |-> {}, token |-> tok])

\* go(): catch { setErr("Wrong username or password") }
goCatch(st) == st

LoginFail ==
  /\ path = "/"
  /\ \E o \in ops :
       /\ o.op = "go"
       /\ ops' = ops \ {o}
  /\ error' = "Wrong username or password"
  /\ storage' = goCatch(storage)
  /\ done' = Some([op |-> "go", failed |-> {"login"}, storageBefore |-> storage])
  /\ sent' = {}
  /\ UNCHANGED <<path, saved, alert, lastLogin, loading, dashVars, ecVars, aqVars, helperVars, indiaVars>>

\* ---------------------------------------------------------------------
\* the application
\* ---------------------------------------------------------------------
\* the page at p has just been opened in a browser whose storage is empty
InitPage(p) ==
  LET m == MountState(p, EmptyStorage, None)
  IN /\ path = p
     /\ storage = m.storage /\ sent = m.sent /\ ops = m.ops /\ loading = m.loading
     /\ city = m.city /\ segmentsNum = m.segmentsNum /\ timeSteps = m.timeSteps
     /\ saved = IF m.saves
                THEN Some([city |-> m.city, segmentsNum |-> m.segmentsNum,
                           timeSteps |-> m.timeSteps])
                ELSE None
     /\ alert = None /\ done = None /\ lastLogin = None
     /\ india = (IF p = "/map" THEN {NewIndia} ELSE {})
     /\ indiaFeature = None /\ borderGeo = None /\ maskGeo = None
     /\ Fresh(error, viewMode, data, predictions, co2Value, roads, severity,
              originAddress, destinationAddress, origin, destination,
              requestId, status, alternatives, route, ambulancePos, toast, timers,
              toastCall, query, location, aqData)

InitAt(p) == InitPage(p) /\ call = None /\ result = None

Init == \E p \in Paths : InitAt(p)

NextLogin ==
  \/ LoginGo
  \/ \E tok \in Tokens : LoginOk(tok)
  \/ LoginFail

NextDashboard ==
  \/ DashUpdate
  \/ \E resp \in RoadsResponses : DashRoadsOk(resp)
  \/ DashRoadsFail
  \/ \E ev \in {"found", "empty", "fail", "ok"}, co \in CoValues : DashCo(ev, co)
  \/ \E i \in 1..3, d \in TrafficResponses : DashTrafficOk(i, d)
  \/ \E i \in 1..3 : DashTrafficFail(i)
  \/ \E resp \in RoadsResponses : PredRoadsOk(resp)
  \/ PredRoadsFail
  \/ \E d \in PredictResponses : PredictOk(d)
  \/ PredictFail
  \/ \E m \in {"live", "predictive"} : SetViewMode(m)

NextMapView ==
  \/ MapUpdate
  \/ \E resp \in RoadsResponses : MapRoadsOk(resp)
  \/ MapRoadsFail
  \/ \E ev \in {"found", "empty", "fail", "ok"}, co \in CoValues : MapCo(ev, co)
  \/ \E i \in 1..3, d \in TrafficResponses : MapTrafficOk(i, d)
  \/ \E i \in 1..3 : MapTrafficFail(i)

NextControls ==
  \/ \E c \in CityInputs : SetCity(c)
  \/ \E n \in SegInputs : SetSegmentsNum(n)
  \/ \E n \in StepInputs : SetTimeSteps(n)

NextCorridor ==
  \/ \E which \in {"origin", "destination"} : Geocode(which)
  \/ \E geo \in GeoResponses : GeocodeOk(geo)
  \/ GeocodeFail
  \/ CreateRequest
  \/ \E res \in CreateResponses : CreateOk(res)
  \/ CreateFail
  \/ \E dlat \in LatJitters, dlon \in LonJitters : UpdatePosition(dlat, dlon)
  \/ UpdateOk
  \/ UpdateFail
  \/ CheckStatus
  \/ \E s \in StatusResponses : StatusOk(s)
  \/ StatusFail
  \/ \E a \in AddressInputs : SetOriginAddress(a)
  \/ \E a \in AddressInputs : SetDestinationAddress(a)
  \/ TimerFire
  \/ Tick

NextAirQuality ==
  \/ AqSearch
  \/ \E r \in GeocodeCityResults : AqGeocodeOk(r)
  \/ \E why \in {"reject", "notOk", "notFound"} : AqGeocodeFail(why)
  \/ \E d \in AirQualityResponses : AqDataOk(d)
  \/ \E why \in {"reject", "notOk"} : AqDataFail(why)
  \/ \E q \in QueryInputs : SetQuery(q)

Next ==
  \/ NextLogin
  \/ NextDashboard
  \/ NextMapView
  \/ NextControls
  \/ NextCorridor
  \/ NextAirQuality

Spec == Init /\ [][Next]_vars

\* EmergencyCorridor alone
SpecEC == InitAt("/corridor") /\ [][NextCorridor]_vars

\* Login, Dashboard and MapView with the Navbar links between them: the stored
\* preferences and the stored token across page views; every load ends when its
\* roads request fails
NextNav ==
  \/ NextLogin
  \/ \E p \in {"/", "/dashboard", "/map"} : Navigate(p)
  \/ DashUpdate
  \/ DashRoadsFail
  \/ MapUpdate
  \/ MapRoadsFail
  \/ \E c \in CityInputsPrefs : SetCity(c)
  \/ \E n \in SegInputsPrefs : SetSegmentsNum(n)
  \/ \E n \in StepInputsPrefs : SetTimeSteps(n)

SpecNav == InitAt("/") /\ [][NextNav]_vars

\* MapView's India polygon across visits of the page
NextIndia ==
  \/ \E p \in {"/", "/map"} : Navigate(p)
  \/ \E r \in FetchOutcomes(LocalJsons) : IndiaLocal(r)
  \/ \E r \in FetchOutcomes(FallbackJsons) : IndiaFallback(r)
  \/ MapRoadsFail

SpecIndia == InitAt("/map") /\ [][NextIndia]_vars

\* the pure helpers of EmergencyCorridor applied to every argument of Calls
InitHelpers ==
  /\ InitPage("/corridor")
  /\ call \in {Some(c) : c \in Calls}
  /\ result = None

NextHelpers ==
  \/ EtaMinutesFromRoute
  \/ GetTrafficColor
  \/ BuildIndiaMaskGeoJSON
  \/ NormalizePoint
  \/ GroupSegments

SpecHelpers == InitHelpers /\ [][NextHelpers]_vars

\* =====================================================================
\* Properties
\* =====================================================================
Ended == done # None
Last == Val(done)
LoadOps == {"load", "loadPredictive", "loadMapData"}
Segments(rows) == [k \in 1..Len(rows) |-> rows[k].segment]
Ids(list) == [k \in 1..Len(list) |-> list[k].id]

\* --- C1 ---------------------------------------------------------------
\* C1 as stated: an operation that ended after one of its network requests failed
\* has left an alert or a non-empty inline error text.
C1_Original ==
  Ended /\ Last.failed # {} => (alert # None \/ error # "")

\* C1, amended: an operation that ended after one of its network requests failed
\* has left an alert or a non-empty inline error text, except that (a) a failed
\* CO request or per-road live-traffic request of Dashboard's live load leaves no
\* error (the live load shows its error exactly when the roads request failed) and
\* (b) MapView's load never shows an error: it shows neither alert nor error text.
C1_Amended ==
  Ended /\ Last.failed # {} =>
    CASE Last.op = "loadMapData" -> alert = None
      [] Last.op = "load" ->
           /\ alert = None
           /\ ("roads" \in Last.failed <=> error = "Failed to fetch road data or live traffic.")
           /\ ("roads" \notin Last.failed => error = "")
      [] OTHER -> alert # None \/ error # ""

\* a predictive load has ended with its error text after a failed prediction request
C1_Witness ==
  /\ Ended /\ Last.op = "loadPredictive" /\ "predict" \in Last.failed
  /\ error = "Failed to load predictive traffic"

\* --- C2 ---------------------------------------------------------------
\* C2 as stated: a load that ended after any one of its requests failed is in its
\* failure outcome and displays no rows or roads obtained by that load.
C2_Original ==
  Ended /\ Last.op \in LoadOps /\ Last.failed # {} =>
    IF Last.op = "loadMapData"
    THEN ~ (Last.displayed /\ Last.list # <<>>)
    ELSE error # "" /\ data = <<>>

\* C2, amended: only a failed roads request, or a failed prediction request of the
\* predictive load, ends a load in its failure outcome with nothing of that load
\* displayed. A failed CO request yields no CO value and a failed per-road
\* live-traffic request yields the value 0 for that road: the live load then still
\* displays one row per selected road without an error, and MapView's load still
\* displays the roads with severity 0 for the failed ones.
C2_Amended ==
  Ended /\ Last.op \in LoadOps =>
    CASE Last.op = "loadPredictive" /\ Last.failed # {} ->
           error = "Failed to load predictive traffic" /\ data = <<>> /\ predictions = {}
      [] Last.op = "load" /\ "roads" \in Last.failed ->
           error # "" /\ data = <<>> /\ predictions = {}
      [] Last.op = "load" /\ "roads" \notin Last.failed ->
           /\ error = ""
           /\ Len(data) = Len(Last.list)
           /\ {data[k].segment : k \in 1..Len(data)} = {Last.list[k].id : k \in 1..Len(Last.list)}
           /\ \A k \in 1..Len(data) :
                data[k].segment \in Last.zeroed =>
                  data[k].vehicle_count = 0 /\ <<data[k].segment, 0>> \in predictions
           /\ ("co" \in Last.failed => co2Value = None)
      [] Last.op = "loadMapData" /\ "roads" \in Last.failed -> ~ Last.displayed
      [] Last.op = "loadMapData" /\ "roads" \notin Last.failed ->
           /\ Last.displayed
           /\ roads = Last.list
           /\ \A id \in Last.zeroed : <<id, 0>> \in severity
           /\ ("co" \in Last.failed => co2Value = None)
      [] OTHER -> TRUE

\* a live load has ended without error and with a row of value 0 for a road whose
\* live-traffic request failed, next to the row of another road
C2_Witness ==
  /\ Ended /\ Last.op = "load" /\ Last.failed = {"traffic"}
  /\ error = "" /\ Len(data) >= 2
  /\ \E k \in 1..Len(data) : data[k].segment \in Last.zeroed /\ data[k].vehicle_count = 0

\* --- C3 ---------------------------------------------------------------
\* C3: the rows that Dashboard's live load stores are the same for every order in
\* which the per-road live-traffic responses complete or fail; the responses
\* completing in the order of the selected roads is one of those orders, so the
\* rows are always in the order of the selected roads.
C3_RowsInListOrder ==
  Ended /\ Last.op = "load" /\ "roads" \notin Last.failed =>
    Segments(data) = Ids(Last.list)

\* --- C4 ---------------------------------------------------------------
\* a step that mounts Dashboard or MapView
Mounts == path' # path /\ path' \in {"/dashboard", "/map"}

\* C4 as stated: Dashboard or MapView mounted after a save initialises its city,
\* segments and time steps to exactly the saved values, and to Kolkata / 5 / 10 when
\* nothing was saved.
C4_Original ==
  [][Mounts =>
       IF saved = None
       THEN city' = DefaultCity /\ segmentsNum' = DefaultSegments /\ timeSteps' = DefaultTimeSteps
       ELSE /\ city' = Val(saved).city
            /\ segmentsNum' = Val(saved).segmentsNum
            /\ timeSteps' = Val(saved).timeSteps]_vars

\* C4, amended: Dashboard or MapView mounted after a save initialises its segments
\* and time steps to exactly the saved values and its city to the saved city when
\* that is not empty; a saved empty city is replaced by the default Kolkata. The
\* defaults Kolkata / 5 / 10 are used when nothing was saved.
C4_Amended ==
  [][Mounts =>
       IF saved = None
       THEN city' = DefaultCity /\ segmentsNum' = DefaultSegments /\ timeSteps' = DefaultTimeSteps
       ELSE /\ city' = IF Val(saved).city = "" THEN DefaultCity ELSE Val(saved).city
            /\ segmentsNum' = Val(saved).segmentsNum
            /\ timeSteps' = Val(saved).timeSteps]_vars

\* MapView has just been mounted with the city, the two-digit segment count and the
\* time steps that were saved before
C4_Witness ==
  /\ path = "/map" /\ Ended /\ Last.op = "mount"
  /\ saved = Some([city |-> "Pune", segmentsNum |-> 12, timeSteps |-> 25])
  /\ city = "Pune" /\ segmentsNum = 12 /\ timeSteps = 25

\* --- C5 ---------------------------------------------------------------
NeedsRequest == {"updatePosition", "checkStatus"}

\* a step in which updatePosition or checkStatus is called: it either starts the
\* operation or ends at once
Called ==
  \/ \E o \in ops' \ ops : o.op \in NeedsRequest
  \/ ops' = ops /\ done' # done /\ done' # None /\ Val(done').op \in NeedsRequest

\* C5: updatePosition and checkStatus called while requestId is null send no
\* request, alert "Create request first!" and leave loading, status, route,
\* alternatives and the ambulance position unchanged; no update_position or status
\* request is sent while no request id has been received.
C5_RequiresRequest ==
  [][/\ Called /\ requestId = None =>
          /\ sent' = {}
          /\ alert' = Some("Create request first!")
          /\ UNCHANGED <<loading, status, route, alternatives, ambulancePos, requestId, ops>>
     /\ \A r \in sent' :
          r.ep \in {"/api/emergency/update_position", "/api/emergency/status"} =>
            requestId # None]_vars

\* checkStatus was called without a request: the alert is up and nothing is in flight
C5_Witness ==
  /\ path = "/corridor" /\ requestId = None
  /\ Ended /\ Last.op = "checkStatus" /\ Last.failed = {}
  /\ alert = Some("Create request first!") /\ sent = {} /\ ~ loading /\ status = None

C7_Headers ==
  \A r \in sent :
    r.client = "API" =>
      /\ r.headers.xApiKey = Some(API_KEY)
      /\ (r.headers.authorization # None <=> Truthy(r.storedAtSend))
      /\ (r.headers.authorization # None =>
            /\ r.loginAtSend # None
            /\ r.headers.authorization = Some(<<"Bearer ", Val(r.loginAtSend)>>))
      /\ (r.loginAtSend = None => r.headers.authorization = None)

\* MapView's roads request is sent with the token tokB of the latest successful login
C7_Witness ==
  \E r \in sent :
    /\ path = "/map" /\ r.client = "API" /\ r.ep = "/api/roads"
    /\ r.headers.authorization = Some(<<"Bearer ", "tokB">>)
    /\ lastLogin = Some("tokB")

\* --- C8 ---------------------------------------------------------------
\* the ETA the header comment and C8 describe: duration_s / 60 whenever duration_s is
\* present, otherwise distance_m at 40 km/h, otherwise the dash
DocumentedEta(routeObj) ==
  IF routeObj = None THEN None
  ELSE LET r == Val(routeObj)
       IN IF r.duration_s # None THEN Some(toFixed1(Val(r.duration_s), 60))
          ELSE IF r.distance_m # None
          THEN Some(toFixed1(Val(r.distance_m) * 3600, 40 * 1000 * 60))
          ELSE None

\* C8: etaMinutesFromRoute returns duration_s / 60 (one decimal) whenever duration_s
\* is present, otherwise the estimate from distance_m at 40 km/h (one decimal), and
\* the dash when the route is missing or has neither field.
C8_DocumentedEta ==
  call # None /\ Val(call).fn = "etaMinutesFromRoute" /\ result # None =>
    Val(result) = DocumentedEta(Val(call).arg)

\* --- C9 ---------------------------------------------------------------
\* C9: the toast set by the most recent showToast(message, ms) is displayed at every
\* moment earlier than ms after that call.
C9_ToastStays ==
  toastCall # None /\ Val(toastCall).elapsed < ToastMs =>
    toast = Some(Val(toastCall).message)

\* --- C10 --------------------------------------------------------------
\* C10: getTrafficColor returns green for an integer severity 0..33, yellow for
\* 34..66, red for 67..100, and blue for null, undefined and values that are not a
\* number.
C10_Bands ==
  call # None /\ Val(call).fn = "getTrafficColor" /\ result # None =>
    LET a == Val(call).arg
        c == Val(result)
    IN IF a.kind # "number" THEN c = "#0ea5e9"
       ELSE /\ (a.v \in 0..33 => c = "#16a34a")
            /\ (a.v \in 34..66 => c = "#eab308")
            /\ (a.v \in 67..100 => c = "#b91c1c")

\* getTrafficColor has returned yellow for the severity 66
C10_Witness ==
  /\ call = Some([fn |-> "getTrafficColor", arg |-> [kind |-> "number", v |-> 66]])
  /\ result = Some("#eab308")

\* --- C11 --------------------------------------------------------------
\* a cell inside one of the polygons of the India feature
InIndia(feature, c) ==
  LET geom == Val(Val(feature).geometry)
  IN IF geom.type = "Polygon" THEN Filled(geom.coordinates, c)
     ELSE \E k \in 1..Len(geom.coordinates) : Filled(geom.coordinates[k], c)

HasPolygons(feature) ==
  /\ feature # None /\ Val(feature).geometry # None
  /\ Val(Val(feature).geometry).type \in {"Polygon", "MultiPolygon"}

\* C11: the mask buildIndiaMaskGeoJSON returns for a Polygon or MultiPolygon
\* feature, when rendered, shades no cell inside an India polygon and shades every
\* cell outside India exactly once; for a missing feature, a missing geometry or a
\* geometry of another type it returns null.
C11_MaskIsWorldMinusIndia ==
  call # None /\ Val(call).fn = "buildIndiaMaskGeoJSON" /\ result # None =>
    LET feature == Val(call).arg
        mask == Val(result)
    IN IF HasPolygons(feature)
       THEN /\ mask # None
            /\ \A c \in WorldCells :
                 ShadeCount(mask, c) = IF InIndia(feature, c) THEN 0 ELSE 1
       ELSE mask = None

\* the feature the local India file yielded to a run of fetchIndia, if it was
\* served and holds one
LocalYield(o) ==
  IF o.local # None /\ Val(o.local).outcome = "ok" THEN localFeat(Val(Val(o.local).json)) ELSE None

\* C12: MapView prefers the local India file.  A run of fetchIndia requests
\* /india.geojson first; it requests the fallback countries dataset only if the
\* local request failed, was not OK or yielded no feature; and when the local
\* file yielded a feature to the mounted page, that feature is the India polygon,
\* the border and the source of the mask.
C12_LocalPreferred ==
  /\ \A o \in india :
       /\ o.phase = "local" => o.local = None
       /\ o.phase = "fallback" => LocalYield(o) = None
       /\ (~o.cancelled /\ LocalYield(o) # None) =>
            /\ indiaFeature = LocalYield(o)
            /\ borderGeo = LocalYield(o)
            /\ maskGeo = buildIndiaMaskGeoJSON(LocalYield(o))
  /\ \A r \in sent :
       r.ep = FALLBACK_COUNTRIES_GEOJSON =>
         \E o \in india : o.phase = "fallback" /\ LocalYield(o) = None
  /\ path = "/map" => \E o \in india : ~o.cancelled

\* the endpoints behind the labels an operation files its failed requests under
Endpoints(label) ==
  CASE label = "roads" -> {"/api/roads"}
    [] label = "co" -> {"openweathermap/geo", "openweathermap/air_pollution"}
    [] label = "traffic" -> {"/api/live_traffic"}
    [] label = "predict" -> {"/api/predict_today"}
    [] label = "login" -> {"/api/login"}
    [] label = "geocode" -> {"/api/geocode"}
    [] label = "create" -> {"/api/emergency/request"}
    [] label = "update" -> {"/api/emergency/update_position"}
    [] label = "status" -> {"/api/emergency/status"}
    [] label = "aqgeo" -> {"open-meteo/geocoding"}
    [] label = "aq" -> {"open-meteo/air-quality"}

\* the invocations in flight, and those that belong to the mounted page
Invocations == ops \cup india
FailedLabels(o) == IF "failed" \in DOMAIN o THEN o.failed ELSE {}

\* the endpoints of the requests that have failed since the user last triggered
\* an operation: those of the operations in flight and of the one that ended last
FailedEndpoints ==
  UNION {Endpoints(f) : f \in UNION ({FailedLabels(o) : o \in ops} \cup {FailedLabels(Val(d)) : d \in {done} \ {None}})}
  \cup {localUrl : o \in {x \in india : ~x.cancelled /\ x.local # None /\ Val(x.local).outcome # "ok"}}

\* C13: there is no retry.  An invocation of a page operation has sent each of
\* its requests at most once, every request that is sent is the first of its
\* kind in its invocation, and no request goes to an endpoint whose request has
\* failed since the user last triggered an operation.
C13_NoRetry ==
  /\ \A o \in Invocations : \A k \in BagToSet(o.asked) : CopiesIn(k, o.asked) = 1
  /\ \A r \in sent : \E o \in Invocations : BagIn(KeyOf(r), o.asked)
  /\ \A r \in sent : r.ep \notin FailedEndpoints

\* a load goes on to its live-traffic requests after its CO request has failed
C13_Witness ==
  \E o \in ops :
    /\ o.op \in {"load", "loadMapData"} /\ o.phase = "traffic" /\ "co" \in o.failed
    /\ \E r \in sent : r.ep = "/api/live_traffic"
    /\ \A k \in BagToSet(o.asked) : CopiesIn(k, o.asked) = 1

\* the five operations of EmergencyCorridor
CorridorOps == {"geocode", "createRequest", "updatePosition", "checkStatus"}

\* C14: in EmergencyCorridor, whose buttons are disabled while loading is true,
\* at most one of geocodeOrigin, geocodeDestination, createRequest, updatePosition
\* and checkStatus is in flight, loading is true exactly while one is in flight,
\* and loading is false once an operation has ended, with or without a failure.
C14_LoadingGuard ==
  path = "/corridor" =>
    /\ \A o \in ops : o.op \in CorridorOps
    /\ Cardinality(ops) <= 1
    /\ loading <=> ops # {}
    /\ Ended => ~loading /\ ops = {}

\* createRequest is in flight while the toast of an earlier, completed operation is shown
C14_Witness ==
  /\ path = "/corridor" /\ loading
  /\ \E o \in ops : o.op = "createRequest"
  /\ toast # None

\* the runs of five input segments that the points of an output polyline come
\* from: the segment number i of a point <<2i, 0>> or <<2i + 1, 0>> lies in run
\* number (i - 1) \div 5 + 1; the origin belongs to no run
RunsOf(o) == {((p[1] \div 2) - 1) \div 5 + 1 : p \in {o.pts[k] : k \in 1..Len(o.pts)} \ {<<0, 0>>}}

\* C15: groupSegments groups every 5 consecutive segments into one.  Every output
\* polyline is made of points of one run of 5 consecutive input segments (the last
\* run possibly shorter), no run yields two polylines, the polylines follow the
\* order of the runs, and n input segments yield at most ceil(n / 5) polylines.
C15_GroupsOfFive ==
  call # None /\ Val(call).fn = "groupSegments" /\ result # None =>
    LET a == Val(call).arg
        out == Val(result)
        n == IF a.kind = "array" THEN Len(a.list) ELSE 0
    IN /\ Len(out) <= (n + 4) \div 5
       /\ \A k \in 1..Len(out) : Cardinality(RunsOf(out[k])) = 1
       /\ \A k \in 1..(Len(out) - 1) :
            \A r1 \in RunsOf(out[k]), r2 \in RunsOf(out[k + 1]) : r1 < r2

\* eleven segments whose second run of five is parked yield two polylines, the
\* first from the first run and the second from the third
C15_Witness ==
  /\ call # None /\ Val(call).fn = "groupSegments" /\ result # None
  /\ Val(call).arg.kind = "array" /\ Len(Val(call).arg.list) = 11
  /\ Len(Val(result)) = 2
  /\ RunsOf(Val(result)[1]) = {1} /\ RunsOf(Val(result)[2]) = {3}

\* C16: for a two-element numeric array [a0, a1] normalizePoint returns
\* {lat: a1, lon: a0} exactly when |a0| > 90 and |a1| <= 90, and {lat: a0, lon: a1}
\* otherwise; so when exactly one reading of the array is a valid coordinate
\* (|lat| <= 90 and |lon| <= 180) that reading is returned, and when both are
\* valid the array is read as [lat, lon].
C16_CoordinateOrder ==
  (call # None /\ Val(call).fn = "normalizePoint" /\ result # None
     /\ Val(call).arg.kind = "array" /\ Len(Val(call).arg.elems) = 2) =>
    LET a0 == Val(call).arg.elems[1]
        a1 == Val(call).arg.elems[2]
        out == Val(result)
        asLatLon == Some([lat |-> a0, lon |-> a1, severity |-> None])
        asLonLat == Some([lat |-> a1, lon |-> a0, severity |-> None])
        Within(x, lim) == -lim <= x /\ x <= lim
        validLatLon == Within(a0, 90) /\ Within(a1, 180)
        validLonLat == Within(a1, 90) /\ Within(a0, 180)
    IN /\ out = IF ~Within(a0, 90) /\ Within(a1, 90) THEN asLonLat ELSE asLatLon
       /\ (validLatLon /\ ~validLonLat) => out = asLatLon
       /\ (validLonLat /\ ~validLatLon) => out = asLonLat
       /\ (validLatLon /\ validLonLat) => out = asLatLon

\* normalizePoint has read [91, 0] as [lon, lat]
C16_Witness ==
  /\ call = Some([fn |-> "normalizePoint", arg |-> [kind |-> "array", elems |-> <<91, 0>>]])
  /\ result = Some(Some([lat |-> 0, lon |-> 91, severity |-> None]))
====
